---- MODULE Spec2Model ----
(***************************************************************************)
(* Model of the supplier monitor of app.py: the scan-state file, the query *)
(* builder, the retrying API client, the answer parser and run().          *)
(* Strings are sequences of one-character strings, so that lower(),        *)
(* split(), strip(), find() and slicing are computed as Python computes    *)
(* them.  The character U+2022 (the round bullet) is written "U+2022".     *)
(***************************************************************************)
EXTENDS Integers, Sequences, FiniteSets, TLC

(***************************************************************************)
(* Bounds                                                                  *)
(***************************************************************************)
\* longest answer text, in lines, drawn from Lexicon
MaxLines == 3
\* suppliers of CONFIG that a run visits (a prefix of the configured list)
NumSuppliers == 2
\* runs of the scheduled job
MaxRuns == 2
\* clock readings per day
TicksPerDay == 2
\* days the clock can reach while runs are followed from load to return
MaxDays == 3
MaxNow == MaxDays * TicksPerDay + 1
\* days the clock can reach while only the query builder is followed
MaxQueryDays == 9
MaxQueryNow == MaxQueryDays * TicksPerDay + 1

(***************************************************************************)
(* Python string primitives                                                *)
(***************************************************************************)
Whitespace == {" ", "\t", "\r", "\n"}

LowerChar(c) ==
    CASE c = "A" -> "a" [] c = "B" -> "b" [] c = "C" -> "c" [] c = "D" -> "d"
      [] c = "E" -> "e" [] c = "F" -> "f" [] c = "G" -> "g" [] c = "H" -> "h"
      [] c = "I" -> "i" [] c = "J" -> "j" [] c = "K" -> "k" [] c = "L" -> "l"
      [] c = "M" -> "m" [] c = "N" -> "n" [] c = "O" -> "o" [] c = "P" -> "p"
      [] c = "Q" -> "q" [] c = "R" -> "r" [] c = "S" -> "s" [] c = "T" -> "t"
      [] c = "U" -> "u" [] c = "V" -> "v" [] c = "W" -> "w" [] c = "X" -> "x"
      [] c = "Y" -> "y" [] c = "Z" -> "z" [] OTHER -> c

\* str.lower()
Lower(s) == [i \in 1..Len(s) |-> LowerChar(s[i])]

\* s[i0:].startswith(sub), i0 counted from 0
MatchAt(s, sub, i0) ==
    /\ i0 + Len(sub) <= Len(s)
    /\ \A k \in 1..Len(sub) : s[i0 + k] = sub[k]

\* str.find(sub, start): the lowest 0-based index, or -1
Find(s, sub, start) ==
    LET hits == {i0 \in start..(Len(s) - Len(sub)) : MatchAt(s, sub, i0)}
    IN  IF hits = {} THEN -1
        ELSE CHOOSE i0 \in hits : \A j0 \in hits : i0 <= j0

\* sub in s
Contains(s, sub) == Find(s, sub, 0) # -1

\* s[a:b] for 0 <= a and 0 <= b
Slice(s, a, b) ==
    LET e == IF b > Len(s) THEN Len(s) ELSE b
    IN  IF a >= e THEN <<>> ELSE SubSeq(s, a + 1, e)

\* str.startswith(c) for a one-character c
StartsWith(s, c) == Len(s) >= 1 /\ s[1] = c

\* str.strip()
Strip(s) ==
    LET keep == {i \in 1..Len(s) : s[i] \notin Whitespace}
    IN  IF keep = {} THEN <<>>
        ELSE LET lo == CHOOSE i \in keep : \A j \in keep : i <= j
                 hi == CHOOSE i \in keep : \A j \in keep : j <= i
             IN  SubSeq(s, lo, hi)

\* str.split('\n'): one more piece than there are separators
RECURSIVE Split(_)
Split(s) ==
    LET nl == Find(s, <<"\n">>, 0)
    IN  IF nl = -1 THEN <<s>>
        ELSE <<Slice(s, 0, nl)>> \o Split(Slice(s, nl + 1, Len(s)))

(***************************************************************************)
(* The words the parser looks for                                          *)
(***************************************************************************)
PhraseNoNewContent ==
    <<"n", "o", " ", "n", "e", "w", " ", "c", "o", "n", "t", "e", "n", "t">>
PhraseNoRecent ==
    <<"n", "o", " ", "r", "e", "c", "e", "n", "t">>
PhraseCouldntFind ==
    <<"c", "o", "u", "l", "d", "n", "'", "t", " ", "f", "i", "n", "d">>
Http == <<"h", "t", "t", "p">>
SchemeSep == <<":", "/", "/">>
BulletMarkers == {"*", "-", "U+2022"}

\* line 201 without the two lower() calls
SaysNoNewContentCaseSensitive(content) ==
    \/ Contains(content, PhraseNoNewContent)
    \/ Contains(content, PhraseNoRecent)
    \/ Contains(content, PhraseCouldntFind)

\* line 201
SaysNoNewContent(content) ==
    \/ Contains(Lower(content), PhraseNoNewContent)
    \/ Contains(Lower(content), PhraseNoRecent)
    \/ Contains(Lower(content), PhraseCouldntFind)

\* lines 216 and 237
HasUrl(line) == Contains(line, Http) /\ Contains(line, SchemeSep)

\* lines 228 and 232
HasBullet(line) == \E c \in BulletMarkers : StartsWith(line, c)

(***************************************************************************)
(* Articles are dicts: functions from keys to strings.  None is the empty  *)
(* sequence and a held article is a one-element sequence.                  *)
(***************************************************************************)
None == <<>>

\* dict.get(key): a missing key reads as the (falsy) empty string
Get(article, key) == IF key \in DOMAIN article THEN article[key] ELSE <<>>

\* article[key] = value
SetKey(article, key, value) ==
    [k \in (DOMAIN article) \cup {key} |-> IF k = key THEN value ELSE article[k]]

\* line 231
NewArticle(line) == [title |-> line, summary |-> <<>>, link |-> <<>>]

\* lines 219-221
ExtractUrl(line) ==
    LET url_start == Find(line, Http, 0)
        url_end == IF Find(line, <<" ">>, url_start) > 0
                   THEN Find(line, <<" ">>, url_start)
                   ELSE Len(line)
    IN  Strip(Slice(line, url_start, url_end))

\* line 217 asking for an empty link in place of a missing key
LinkWantedIfEmpty(current_article) ==
    /\ current_article # None
    /\ Get(current_article[1], "link") = <<>>

\* line 217
LinkWanted(current_article) ==
    /\ current_article # None
    /\ "link" \notin DOMAIN current_article[1]

\* lines 216-225: a line with a URL pattern
LinkLine(st, line) ==
    IF LinkWanted(st.current_article)
    THEN [current_article |-> None,
          articles |-> Append(st.articles,
                              SetKey(st.current_article[1], "link", ExtractUrl(line)))]
    ELSE st

\* lines 228-231 without the append of line 230
TitleLineDropsOpen(st, line) ==
    [current_article |-> <<NewArticle(line)>>, articles |-> st.articles]

\* lines 228-231: a line with no URL pattern and no bullet marker
TitleLine(st, line) ==
    [current_article |-> <<NewArticle(line)>>,
     articles |-> IF st.current_article # None
                  THEN Append(st.articles, st.current_article[1])
                  ELSE st.articles]

\* lines 232-247 without the test of line 246
BulletLineOverwrites(st, line) ==
    LET rest == Strip(Slice(line, 1, Len(line)))
        cur == st.current_article
    IN  IF HasUrl(rest)
        THEN IF cur # None
             THEN [st EXCEPT !.current_article =
                      <<SetKey(cur[1], "link",
                               Strip(Slice(rest, Find(rest, Http, 0), Len(rest))))>>]
             ELSE st
        ELSE IF cur # None
             THEN IF cur[1]["title"] = <<>>
                  THEN [st EXCEPT !.current_article = <<SetKey(cur[1], "title", rest)>>]
                  ELSE [st EXCEPT !.current_article = <<SetKey(cur[1], "summary", rest)>>]
             ELSE st

\* lines 232-247: a line with a bullet marker
BulletLine(st, line) ==
    LET rest == Strip(Slice(line, 1, Len(line)))
        cur == st.current_article
    IN  IF HasUrl(rest)
        THEN IF cur # None
             THEN [st EXCEPT !.current_article =
                      <<SetKey(cur[1], "link",
                               Strip(Slice(rest, Find(rest, Http, 0), Len(rest))))>>]
             ELSE st
        ELSE IF cur # None
             THEN IF cur[1]["title"] = <<>>
                  THEN [st EXCEPT !.current_article = <<SetKey(cur[1], "title", rest)>>]
                  ELSE IF cur[1]["summary"] = <<>>
                       THEN [st EXCEPT !.current_article =
                                <<SetKey(cur[1], "summary", rest)>>]
                       ELSE st
             ELSE st

\* lines 210-247: the body of the loop, for one raw line
LineStep(st, raw) ==
    LET line == Strip(raw)
    IN  IF line = <<>> THEN st
        ELSE IF HasUrl(line) THEN LinkLine(st, line)
        ELSE IF ~HasBullet(line) THEN TitleLine(st, line)
        ELSE BulletLine(st, line)

\* lines 249-251
AddLast(st) ==
    IF st.current_article # None
    THEN Append(st.articles, st.current_article[1])
    ELSE st.articles

\* line 256 without the test of summary and link
ProperTitleOnly(article) == Get(article, "title") # <<>>

\* line 256
Proper(article) ==
    /\ Get(article, "title") # <<>>
    /\ (Get(article, "summary") # <<>> \/ Get(article, "link") # <<>>)

\* lines 254-257
RECURSIVE FilterArticles(_)
FilterArticles(as) ==
    IF as = <<>> THEN <<>>
    ELSE IF Proper(Head(as)) THEN <<Head(as)>> \o FilterArticles(Tail(as))
    ELSE FilterArticles(Tail(as))

RECURSIVE RunLines(_, _, _)
RunLines(st, ls, i) ==
    IF i > Len(ls) THEN st ELSE RunLines(LineStep(st, ls[i]), ls, i + 1)

\* lines 205-260 as one function of the answer text
ParseContent(content) ==
    IF SaysNoNewContent(content) THEN <<>>
    ELSE FilterArticles(AddLast(
             RunLines([current_article |-> None, articles |-> <<>>],
                      Split(content), 1)))

\* line 197 and lines 262-264: what response["choices"][0]["message"]["content"]
\* does on each shape of decoded JSON
LookupFails(response) == response.kind \in {"nochoices", "emptychoices"}
LookupGivesNull(response) == response.kind = "nullcontent"

\* lines 194-264: the outcome of _parse_perplexity_response; an exception
\* other than KeyError and IndexError leaves the function
ParsePerplexityResponse(response) ==
    IF LookupFails(response) THEN [raised |-> FALSE, value |-> <<>>]
    ELSE IF LookupGivesNull(response) THEN [raised |-> TRUE, value |-> <<>>]
    ELSE [raised |-> FALSE, value |-> ParseContent(response.content)]

(***************************************************************************)
(* Answer texts                                                            *)
(***************************************************************************)
LineTitle == <<"T", "t">>
LinePlain == <<"s", " ", "u">>
LineStar == <<"*", " ", "b">>
LineDash == <<"-", "c">>
LineDot == <<"U+2022", "d">>
LineUrl == <<"h", "t", "t", "p", ":", "/", "/", "u">>
LineUrlText == <<"a", "t", " ", "h", "t", "t", "p", "s", ":", "/", "/", "v", " ", "w">>
LineStarUrl == <<"*", " ", "h", "t", "t", "p", ":", "/", "/", "x">>
LineBlank == <<" ", " ">>
LineNoRecent == <<"N", "o", " ", "R", "e", "c", "e", "n", "t", " ", "x">>
LineCouldnt == <<"I", " ", "C", "O", "U", "L", "D", "N", "'", "T", " ", "F", "I", "N", "D">>
LineNoNew == <<"n", "o", " ", "n", "e", "w", " ", "c", "o", "n", "t", "e", "n", "t">>

Lexicon ==
    {LineTitle, LinePlain, LineStar, LineDash, LineDot, LineUrl, LineUrlText,
     LineStarUrl, LineBlank, LineNoRecent, LineCouldnt, LineNoNew}

EdgecoreTitle ==
    <<"E", "d", "g", "e", "c", "o", "r", "e", " ", "l", "a", "u", "n", "c", "h", "e", "s", " ", "N", "G", "-", "O", "L", "T">>
EdgecoreSummary ==
    <<"N", "e", "w", " ", "l", "i", "n", "e", " ", "o", "f", " ", "o", "p", "t", "i", "c", "a", "l", " ", "l", "i", "n", "e", " ", "t", "e", "r", "m", "i", "n", "a", "l", "s", ".">>
EdgecoreLink ==
    <<"h", "t", "t", "p", "s", ":", "/", "/", "e", "d", "g", "e", "c", "o", "r", "e", ".", "c", "o", "m", "/", "n", "e", "w", "s", "/", "1">>

\* "\n".join(ls)
RECURSIVE JoinLines(_)
JoinLines(ls) ==
    IF ls = <<>> THEN <<>>
    ELSE IF Len(ls) = 1 THEN ls[1]
    ELSE ls[1] \o <<"\n">> \o JoinLines(Tail(ls))

EdgecoreText ==
    JoinLines(<<EdgecoreTitle, EdgecoreSummary, EdgecoreLink>>) \o <<"\n">>

Texts ==
    {JoinLines(ls) : ls \in UNION {[1..n -> Lexicon] : n \in 0..MaxLines}}
        \cup {EdgecoreText}

Answer(text) == [kind |-> "content", content |-> text]
NoChoices == [kind |-> "nochoices", content |-> <<>>]
EmptyChoices == [kind |-> "emptychoices", content |-> <<>>]
NullContent == [kind |-> "nullcontent", content |-> <<>>]

Responses == {Answer(t) : t \in Texts} \cup {NoChoices, EmptyChoices, NullContent}

(***************************************************************************)
(* Configuration (lines 47-95)                                             *)
(***************************************************************************)
SupplierQuery == "new products OR news OR announcements OR press release"

AllSuppliers ==
    << [name |-> "Edgecore Networks", domain |-> "edgecore.com", query |-> SupplierQuery],
       [name |-> "IP Infusion", domain |-> "ipinfusion.com", query |-> SupplierQuery],
       [name |-> "II-VI (Formerly Finisar)", domain |-> "ii-vi.com", query |-> SupplierQuery],
       [name |-> "Lanner Electronics", domain |-> "lannerinc.com", query |-> SupplierQuery],
       [name |-> "Smartoptics", domain |-> "smartoptics.com", query |-> SupplierQuery],
       [name |-> "Coherent", domain |-> "coherent.com", query |-> SupplierQuery],
       [name |-> "Penguin Computing", domain |-> "penguincomputing.com", query |-> SupplierQuery] >>

Suppliers == SubSeq(AllSuppliers, 1, NumSuppliers)
SupplierNames == {Suppliers[i].name : i \in 1..Len(Suppliers)}

(***************************************************************************)
(* datetime: an instant is a number of ticks since the midnight that       *)
(* starts EpochDate; isoformat() writes the date and the time of day,      *)
(* fromisoformat() reads them back, strftime("%m/%d/%Y") keeps the date.   *)
(***************************************************************************)
EpochDate == [year |-> 2025, month |-> 12, day |-> 29]

IsLeap(y) == (y % 4 = 0 /\ y % 100 # 0) \/ y % 400 = 0

DaysInMonth(y, m) ==
    IF m \in {4, 6, 9, 11} THEN 30
    ELSE IF m = 2 THEN (IF IsLeap(y) THEN 29 ELSE 28)
    ELSE 31

NextDate(d) ==
    IF d.day < DaysInMonth(d.year, d.month) THEN [d EXCEPT !.day = d.day + 1]
    ELSE IF d.month < 12 THEN [d EXCEPT !.month = d.month + 1, !.day = 1]
    ELSE [year |-> d.year + 1, month |-> 1, day |-> 1]

PrevDate(d) ==
    IF d.day > 1 THEN [d EXCEPT !.day = d.day - 1]
    ELSE IF d.month > 1
         THEN [d EXCEPT !.month = d.month - 1,
                        !.day = DaysInMonth(d.year, d.month - 1)]
    ELSE [year |-> d.year - 1, month |-> 12, day |-> 31]

RECURSIVE DateOfDay(_)
DateOfDay(n) == IF n = 0 THEN EpochDate ELSE NextDate(DateOfDay(n - 1))

RECURSIVE DayOfDate(_)
DayOfDate(d) == IF d = EpochDate THEN 0 ELSE 1 + DayOfDate(PrevDate(d))

\* datetime.isoformat(), line 340
IsoFormat(t) ==
    LET d == DateOfDay(t \div TicksPerDay)
    IN  <<d.year, d.month, d.day, t % TicksPerDay>>

\* datetime.fromisoformat(), lines 135 and 172
FromIsoFormat(iso) ==
    DayOfDate([year |-> iso[1], month |-> iso[2], day |-> iso[3]]) * TicksPerDay + iso[4]

\* strftime("%m/%d/%Y"), line 174
FormatMDY(t) ==
    LET d == DateOfDay(t \div TicksPerDay)
    IN  <<d.month, d.day, d.year>>

\* timedelta.days, line 136: whole days, rounded towards minus infinity
DaysBetween(later, earlier) == (later - earlier) \div TicksPerDay

(***************************************************************************)
(* The scan-state file (lines 110-126)                                     *)
(***************************************************************************)
EmptyMap == <<>>

\* line 117
EmptyScanData == [last_scan |-> None, results |-> EmptyMap]

NoFile == [exists |-> FALSE, text |-> <<>>]

\* json.dump, line 123: the document in the pieces written, in order
JsonDump(scan) ==
    << <<"{last_scan:", scan.last_scan>>, <<"results:", scan.results>>, "}" >>

\* json.load accepts a whole document only
JsonComplete(text) == Len(text) = 3 /\ text[3] = "}"

\* A file somebody else wrote: the JSON document [], which json.load accepts
ListFile == [exists |-> TRUE, text |-> << <<"[", "]">> >>]

\* json.load of the document []
JsonIsList(text) == Len(text) = 1 /\ text[1][1] = "["

\* the Python value [] (a list, where a dict is expected)
PyList == [py_list |-> <<>>]

\* lines 134 and 340-341 work on a dict only
IsDict(value) == "py_list" \notin DOMAIN value

\* lines 110-117: whatever json.load decodes is returned as it is; only a
\* missing file and a document json.load rejects give the empty state
LoadLastScanData(file) ==
    IF file.exists /\ JsonComplete(file.text)
    THEN [last_scan |-> file.text[1][2], results |-> file.text[2][2]]
    ELSE IF file.exists /\ JsonIsList(file.text)
    THEN PyList
    ELSE EmptyScanData

(***************************************************************************)
(* The query (lines 132-175)                                               *)
(***************************************************************************)
\* lines 137-142 with < 7 for <= 7
TimeFrameWeekShort(days_since_last_scan) ==
    IF days_since_last_scan <= 1 THEN <<"in the last day">>
    ELSE IF days_since_last_scan < 7 THEN <<"in the last week">>
    ELSE <<"in the last ", ToString(days_since_last_scan), " days">>

\* lines 137-142
TimeFrame(days_since_last_scan) ==
    IF days_since_last_scan <= 1 THEN <<"in the last day">>
    ELSE IF days_since_last_scan <= 7 THEN <<"in the last week">>
    ELSE <<"in the last ", ToString(days_since_last_scan), " days">>

\* lines 133-142
TimeFrameFor(scan, clock) ==
    IF scan.last_scan # None
    THEN TimeFrame(DaysBetween(clock, FromIsoFormat(scan.last_scan[1])))
    ELSE <<>>

QueryTail ==
    ". Focus only on new content published since yesterday. Format each result with the title, a brief summary, and the URL."

\* line 145
QueryText(supplier, time_frame) ==
    <<"Find ", supplier.query, " from ", supplier.domain, " ">>
        \o time_frame \o <<QueryTail>>

\* lines 171-175 with the format "%d/%m/%Y"
DateFilterDayFirst(scan) ==
    LET mdy == FormatMDY(FromIsoFormat(scan.last_scan[1]))
    IN  <<mdy[2], mdy[1], mdy[3]>>

\* lines 171-175
DateFilterOf(scan) == FormatMDY(FromIsoFormat(scan.last_scan[1]))

\* lines 154-175
BuildData(supplier, scan, clock) ==
    LET base == [model |-> "sonar-pro",
                 query |-> QueryText(supplier, TimeFrameFor(scan, clock)),
                 search_domain_filter |-> <<supplier.domain>>,
                 search_recency_filter |-> "month"]
    IN  IF scan.last_scan # None
        THEN SetKey(base, "search_after_date_filter", DateFilterOf(scan))
        ELSE base

(***************************************************************************)
(* The retry loop (lines 177-192) and run() (lines 324-348)                *)
(***************************************************************************)
\* line 178
MaxRetries == 3

\* line 189 with 2 * attempt
BackoffDelayLinear(attempt_no) == 2 * attempt_no

\* line 189
BackoffDelay(attempt_no) == 2 ^ attempt_no

\* line 332
OnSupplierDone(results, name, value) == SetKey(results, name, value)

\* line 337 left out
OnSupplierErrorDrops(results, name) == results

\* line 337
OnSupplierError(results, name) == SetKey(results, name, <<>>)

\* lines 269-273 asking every supplier for an article
HasContentEvery(results) == \A n \in DOMAIN results : results[n] # <<>>

\* lines 269-273
HasContent(results) == \E n \in DOMAIN results : results[n] # <<>>

\* lines 290-307: one section per supplier with articles, in dict order
RECURSIVE Sections(_, _)
Sections(results, i) ==
    IF i > Len(Suppliers) THEN <<>>
    ELSE LET n == Suppliers[i].name
         IN  (IF n \in DOMAIN results /\ results[n] # <<>>
              THEN <<[supplier |-> n, articles |-> results[n]]>>
              ELSE <<>>) \o Sections(results, i + 1)

OneArticleText == JoinLines(<<LineTitle, LineStar>>)

\* decoded 2xx bodies the API hands to a run
RunResponses == {Answer(OneArticleText), Answer(LineNoNew), NoChoices, NullContent}

(***************************************************************************)
(* State                                                                   *)
(***************************************************************************)
VARIABLES
    \* _parse_perplexity_response, one line at a time
    response,          \* the decoded JSON handed to the parser
    p_pc,              \* "off", "start", "loop", "returned", "raised"
    lines,             \* content.split('\n')
    li,                \* index of the next line of the loop
    current_article,   \* None or <<article>>
    articles,          \* the list built by the loop
    parsed,            \* the returned list
    \* the environment
    now,               \* datetime.now(), in ticks
    data_file,         \* last_scan_data.json
    \* the scheduled job
    pc,                \* "idle", "build", "request", "stamp", "save", "notify", "return"
    runs,              \* completed runs
    last_scan_data,    \* self.last_scan_data
    all_results,       \* all_results of run()
    si,                \* index of the supplier of the loop of run()
    data,              \* the request payload of query_perplexity
    attempt,           \* attempt of the retry loop
    sleeps,            \* arguments of time.sleep in the retry loop, this supplier
    outcomes,          \* what each attempt met, this supplier
    answer,            \* None or <<the decoded 2xx body>>, this supplier
    query_result,      \* how query_perplexity ended, this supplier
    processed,         \* supplier indices handled so far in this run
    failed,            \* supplier indices whose pipeline raised in this run
    saved,             \* how _save_last_scan_data ended in this run
    email,             \* None or <<the message handed to SMTP>>
    returned           \* None or <<the value run() returned>>

parserVars == <<response, p_pc, lines, li, current_article, articles, parsed>>

envVars == <<now, data_file>>

queryVars == <<data, attempt, sleeps, outcomes, answer, query_result>>

runVars == <<runs, last_scan_data, all_results, si, processed, failed,
             saved, email, returned>>

vars == <<parserVars, envVars, queryVars, pc, runVars>>

(***************************************************************************)
(* The parser as a machine over the lines of one answer                    *)
(***************************************************************************)
ParserIdle ==
    /\ response = NoChoices
    /\ p_pc = "off"
    /\ lines = <<>>
    /\ li = 1
    /\ current_article = None
    /\ articles = <<>>
    /\ parsed = <<>>

\* the state of the job before its first run (lines 98-108 not yet executed)
JobIdle ==
    /\ now = 0
    /\ data_file = NoFile
    /\ pc = "idle"
    /\ runs = 0
    /\ last_scan_data = EmptyScanData
    /\ all_results = EmptyMap
    /\ si = 1
    /\ data = EmptyMap
    /\ attempt = 0
    /\ sleeps = <<>>
    /\ outcomes = <<>>
    /\ answer = None
    /\ query_result = [status |-> "none", value |-> <<>>]
    /\ processed = <<>>
    /\ failed = {}
    /\ saved = "none"
    /\ email = None
    /\ returned = None

ParseInit ==
    /\ JobIdle
    /\ response \in Responses
    /\ p_pc = "start"
    /\ lines = <<>>
    /\ li = 1
    /\ current_article = None
    /\ articles = <<>>
    /\ parsed = <<>>

\* line 197 raises KeyError or IndexError, caught at line 262
ParseLookupFails ==
    /\ p_pc = "start"
    /\ LookupFails(response)
    /\ p_pc' = "returned"
    /\ parsed' = <<>>
    /\ UNCHANGED <<response, lines, li, current_article, articles>>
    /\ UNCHANGED <<envVars, queryVars, pc, runVars>>

\* line 201 raises on a null content; nothing catches it here
ParseRaises ==
    /\ p_pc = "start"
    /\ LookupGivesNull(response)
    /\ p_pc' = "raised"
    /\ UNCHANGED <<response, lines, li, current_article, articles, parsed>>
    /\ UNCHANGED <<envVars, queryVars, pc, runVars>>

\* lines 201-203
ParseNoNewContent ==
    /\ p_pc = "start"
    /\ response.kind = "content"
    /\ SaysNoNewContent(response.content)
    /\ p_pc' = "returned"
    /\ parsed' = <<>>
    /\ UNCHANGED <<response, lines, li, current_article, articles>>
    /\ UNCHANGED <<envVars, queryVars, pc, runVars>>

\* lines 206-209
ParseSplit ==
    /\ p_pc = "start"
    /\ response.kind = "content"
    /\ ~SaysNoNewContent(response.content)
    /\ p_pc' = "loop"
    /\ lines' = Split(response.content)
    /\ li' = 1
    /\ current_article' = None
    /\ articles' = <<>>
    /\ UNCHANGED <<response, parsed>>
    /\ UNCHANGED <<envVars, queryVars, pc, runVars>>

ReadLine ==
    LET st == LineStep([current_article |-> current_article, articles |-> articles],
                       lines[li])
    IN  /\ current_article' = st.current_article
        /\ articles' = st.articles
        /\ li' = li + 1
        /\ UNCHANGED <<response, p_pc, lines, parsed>>
        /\ UNCHANGED <<envVars, queryVars, pc, runVars>>

\* lines 211-213
ReadBlankLine ==
    /\ p_pc = "loop" /\ li <= Len(lines)
    /\ Strip(lines[li]) = <<>>
    /\ ReadLine

\* lines 216-225
ReadLinkLine ==
    /\ p_pc = "loop" /\ li <= Len(lines)
    /\ Strip(lines[li]) # <<>>
    /\ HasUrl(Strip(lines[li]))
    /\ ReadLine

\* lines 228-231
ReadTitleLine ==
    /\ p_pc = "loop" /\ li <= Len(lines)
    /\ Strip(lines[li]) # <<>>
    /\ ~HasUrl(Strip(lines[li]))
    /\ ~HasBullet(Strip(lines[li]))
    /\ ReadLine

\* lines 232-247
ReadBulletLine ==
    /\ p_pc = "loop" /\ li <= Len(lines)
    /\ Strip(lines[li]) # <<>>
    /\ ~HasUrl(Strip(lines[li]))
    /\ HasBullet(Strip(lines[li]))
    /\ ReadLine

\* lines 249-260
ParseFinish ==
    /\ p_pc = "loop" /\ li > Len(lines)
    /\ articles' = AddLast([current_article |-> current_article, articles |-> articles])
    /\ parsed' = FilterArticles(articles')
    /\ p_pc' = "returned"
    /\ UNCHANGED <<response, lines, li, current_article>>
    /\ UNCHANGED <<envVars, queryVars, pc, runVars>>

ParseNext ==
    \/ ParseLookupFails
    \/ ParseRaises
    \/ ParseNoNewContent
    \/ ParseSplit
    \/ ReadBlankLine
    \/ ReadLinkLine
    \/ ReadTitleLine
    \/ ReadBulletLine
    \/ ParseFinish

ParseSpec == ParseInit /\ [][ParseNext]_vars

(***************************************************************************)
(* The scheduled job: run_supplier_monitor and SupplierMonitor.run, under  *)
(* a clock that never goes back                                            *)
(***************************************************************************)
Init == ParserIdle /\ JobIdle

\* The clock is read at lines 136 and 340 only, so time is let pass right
\* before those readings: the time between two runs passes before the first
\* query of the later run is built.
ClockPoints == {"build", "stamp"}

Tick ==
    /\ pc \in ClockPoints
    /\ now < MaxNow
    /\ now' = now + 1
    /\ UNCHANGED <<data_file, parserVars, queryVars, pc, runVars>>

\* lines 359-360, 98-108 and 326-328: a new monitor loads the file and run() begins
StartRun ==
    /\ pc = "idle"
    /\ runs < MaxRuns
    /\ last_scan_data' = LoadLastScanData(data_file)
    /\ all_results' = EmptyMap
    /\ si' = 1
    /\ processed' = <<>>
    /\ failed' = {}
    /\ saved' = "none"
    /\ email' = None
    /\ returned' = None
    /\ pc' = "build"
    /\ UNCHANGED <<runs, envVars, parserVars, queryVars>>

\* lines 130-178
BuildQuery ==
    /\ pc = "build"
    /\ IsDict(last_scan_data)
    /\ data' = BuildData(Suppliers[si], last_scan_data, now)
    /\ attempt' = 0
    /\ sleeps' = <<>>
    /\ outcomes' = <<>>
    /\ answer' = None
    /\ query_result' = [status |-> "pending", value |-> <<>>]
    /\ pc' = "request"
    /\ UNCHANGED <<envVars, parserVars, runVars>>

\* query_perplexity returns value (lines 185 and 192)
QueryReturns(value) ==
    /\ query_result' = [status |-> "returned", value |-> value]
    /\ pc' = "store"

\* an exception leaves query_perplexity
QueryRaises ==
    /\ query_result' = [status |-> "raised", value |-> <<>>]
    /\ pc' = "store"

\* lines 186-192 with one attempt more before giving up
RetryOnceMore ==
    IF attempt < MaxRetries
    THEN /\ sleeps' = Append(sleeps, BackoffDelay(attempt))
         /\ attempt' = attempt + 1
         /\ UNCHANGED <<query_result, pc>>
    ELSE /\ QueryReturns(<<>>)
         /\ UNCHANGED <<sleeps, attempt>>

\* lines 186-192: a RequestException in attempt
Retry ==
    IF attempt < MaxRetries - 1
    THEN /\ sleeps' = Append(sleeps, BackoffDelay(attempt))
         /\ attempt' = attempt + 1
         /\ UNCHANGED <<query_result, pc>>
    ELSE /\ QueryReturns(<<>>)
         /\ UNCHANGED <<sleeps, attempt>>

\* lines 182-183: the request fails, or its status is not 2xx
RequestFails ==
    /\ pc = "request"
    /\ outcomes' = Append(outcomes, "failed")
    /\ Retry
    /\ UNCHANGED <<data, answer, envVars, parserVars, runVars>>

\* line 184 on a 2xx body that is not JSON, with requests 2.27 or later:
\* response.json() raises requests.exceptions.JSONDecodeError, a RequestException
RequestBadJsonCaught ==
    /\ pc = "request"
    /\ outcomes' = Append(outcomes, "badjson")
    /\ Retry
    /\ UNCHANGED <<data, answer, envVars, parserVars, runVars>>

\* line 184 on a 2xx body that is not JSON, with an earlier requests:
\* response.json() raises a ValueError, which leaves query_perplexity
RequestBadJsonEscapes ==
    /\ pc = "request"
    /\ outcomes' = Append(outcomes, "badjson")
    /\ QueryRaises
    /\ UNCHANGED <<data, attempt, sleeps, answer, envVars, parserVars, runVars>>

\* lines 184-185 on a 2xx body that is JSON, parsed without an exception
RequestAnswered ==
    /\ pc = "request"
    /\ \E r \in RunResponses :
          /\ ~ParsePerplexityResponse(r).raised
          /\ answer' = <<r>>
          /\ QueryReturns(ParsePerplexityResponse(r).value)
    /\ outcomes' = Append(outcomes, "answered")
    /\ UNCHANGED <<data, attempt, sleeps, envVars, parserVars, runVars>>

\* lines 184-185 on a 2xx body that is JSON, the parser raising
RequestMalformed ==
    /\ pc = "request"
    /\ \E r \in RunResponses :
          /\ ParsePerplexityResponse(r).raised
          /\ answer' = <<r>>
    /\ outcomes' = Append(outcomes, "malformed")
    /\ QueryRaises
    /\ UNCHANGED <<data, attempt, sleeps, envVars, parserVars, runVars>>

\* the locals of query_perplexity end with the call
QueryLocalsGone ==
    /\ data' = EmptyMap
    /\ attempt' = 0
    /\ sleeps' = <<>>
    /\ outcomes' = <<>>
    /\ answer' = None
    /\ query_result' = [status |-> "none", value |-> <<>>]

NextSupplier ==
    /\ processed' = Append(processed, si)
    /\ si' = si + 1
    /\ pc' = IF si = Len(Suppliers) THEN "stamp" ELSE "build"

\* lines 331-334 with the stamp of line 340 moved into the loop
RecordArticlesStamps ==
    /\ pc = "store"
    /\ query_result.status = "returned"
    /\ all_results' = OnSupplierDone(all_results, Suppliers[si].name, query_result.value)
    /\ last_scan_data' = [last_scan_data EXCEPT !.last_scan = <<IsoFormat(now)>>]
    /\ NextSupplier
    /\ QueryLocalsGone
    /\ UNCHANGED <<failed, runs, saved, email, returned, envVars, parserVars>>

\* lines 331-334
RecordArticles ==
    /\ pc = "store"
    /\ query_result.status = "returned"
    /\ all_results' = OnSupplierDone(all_results, Suppliers[si].name, query_result.value)
    /\ NextSupplier
    /\ QueryLocalsGone
    /\ UNCHANGED <<failed, runs, last_scan_data, saved, email, returned,
                   envVars, parserVars>>

\* lines 335-337
RecordFailure ==
    /\ pc = "store"
    /\ query_result.status = "raised"
    /\ all_results' = OnSupplierError(all_results, Suppliers[si].name)
    /\ failed' = failed \cup {si}
    /\ NextSupplier
    /\ QueryLocalsGone
    /\ UNCHANGED <<runs, last_scan_data, saved, email, returned, envVars, parserVars>>

\* lines 339-341
StampScan ==
    /\ pc = "stamp"
    /\ IsDict(last_scan_data)
    /\ last_scan_data' = [last_scan |-> <<IsoFormat(now)>>, results |-> all_results]
    /\ pc' = "save"
    /\ UNCHANGED <<runs, all_results, si, processed, failed, saved, email, returned,
                   envVars, parserVars, queryVars>>

\* lines 121-124
SaveCompletes ==
    /\ pc = "save"
    /\ data_file' = [exists |-> TRUE, text |-> JsonDump(last_scan_data)]
    /\ saved' = "written"
    /\ pc' = "notify"
    /\ UNCHANGED <<now, runs, last_scan_data, all_results, si,
                   processed, failed, email, returned, parserVars, queryVars>>

\* line 122 raises and nothing catches it: the exception leaves run()
SaveOpenFailsAborts ==
    /\ pc = "save"
    /\ saved' = "open failed"
    /\ runs' = runs + 1
    /\ pc' = "idle"
    /\ UNCHANGED <<envVars, last_scan_data, all_results, si,
                   processed, failed, email, returned, parserVars, queryVars>>

\* line 122 raises (the file cannot be opened for writing), caught at line 125
SaveOpenFails ==
    /\ pc = "save"
    /\ saved' = "open failed"
    /\ pc' = "notify"
    /\ UNCHANGED <<envVars, runs, last_scan_data, all_results, si,
                   processed, failed, email, returned, parserVars, queryVars>>

\* line 122 truncates the file, line 123 raises after k pieces, caught at line 125
SaveWriteFails ==
    /\ pc = "save"
    /\ \E k \in 0..(Len(JsonDump(last_scan_data)) - 1) :
          data_file' = [exists |-> TRUE,
                        text |-> SubSeq(JsonDump(last_scan_data), 1, k)]
    /\ saved' = "write failed"
    /\ pc' = "notify"
    /\ UNCHANGED <<now, runs, last_scan_data, all_results, si,
                   processed, failed, email, returned, parserVars, queryVars>>

\* lines 268-277
NotifySkips ==
    /\ pc = "notify"
    /\ ~HasContent(all_results)
    /\ pc' = "return"
    /\ UNCHANGED <<envVars, parserVars, queryVars, runVars>>

\* lines 279-320
NotifySends ==
    /\ pc = "notify"
    /\ HasContent(all_results)
    /\ email' = <<[sections |-> Sections(all_results, 1), delivered |-> TRUE]>>
    /\ pc' = "return"
    /\ UNCHANGED <<runs, last_scan_data, all_results, si, processed, failed, saved,
                   returned, envVars, parserVars, queryVars>>

\* lines 279-322: SMTP raises, caught at line 321
NotifySmtpFails ==
    /\ pc = "notify"
    /\ HasContent(all_results)
    /\ email' = <<[sections |-> Sections(all_results, 1), delivered |-> FALSE]>>
    /\ pc' = "return"
    /\ UNCHANGED <<runs, last_scan_data, all_results, si, processed, failed, saved,
                   returned, envVars, parserVars, queryVars>>

\* lines 347-348
ReturnResults ==
    /\ pc = "return"
    /\ returned' = <<all_results>>
    /\ runs' = runs + 1
    /\ pc' = "idle"
    /\ UNCHANGED <<last_scan_data, all_results, si, processed, failed, saved, email,
                   envVars, parserVars, queryVars>>

Next ==
    \/ Tick
    \/ StartRun
    \/ BuildQuery
    \/ RequestFails
    \/ RequestBadJsonCaught
    \/ RequestBadJsonEscapes
    \/ RequestAnswered
    \/ RequestMalformed
    \/ RecordArticles
    \/ RecordFailure
    \/ StampScan
    \/ SaveCompletes
    \/ SaveOpenFails
    \/ SaveWriteFails
    \/ NotifySkips
    \/ NotifySends
    \/ NotifySmtpFails
    \/ ReturnResults

Spec == Init /\ [][Next]_vars

(***************************************************************************)
(* The job over a data file it finds: absent, written whole or in part by  *)
(* an earlier run, or holding a JSON document that is not a state record.  *)
(***************************************************************************)
StoredFiles ==
    LET whole == JsonDump([last_scan |-> <<IsoFormat(0)>>, results |-> EmptyMap])
    IN  {NoFile, ListFile}
            \cup {[exists |-> TRUE, text |-> SubSeq(whole, 1, k)] : k \in 0..Len(whole)}

LoadInit ==
    /\ ParserIdle
    /\ now = 0
    /\ data_file \in StoredFiles
    /\ pc = "idle"
    /\ runs = 0
    /\ last_scan_data = EmptyScanData
    /\ all_results = EmptyMap
    /\ si = 1
    /\ data = EmptyMap
    /\ attempt = 0
    /\ sleeps = <<>>
    /\ outcomes = <<>>
    /\ answer = None
    /\ query_result = [status |-> "none", value |-> <<>>]
    /\ processed = <<>>
    /\ failed = {}
    /\ saved = "none"
    /\ email = None
    /\ returned = None

\* line 134: .get on a value that is not a dict raises AttributeError, which
\* leaves query_perplexity before any request
BuildQueryRaises ==
    /\ pc = "build"
    /\ ~IsDict(last_scan_data)
    /\ QueryRaises
    /\ UNCHANGED <<data, attempt, sleeps, outcomes, answer, envVars, parserVars, runVars>>

\* line 340: item assignment on a value that is not a dict raises TypeError,
\* which leaves run() and is caught at line 361
StampRaises ==
    /\ pc = "stamp"
    /\ ~IsDict(last_scan_data)
    /\ runs' = runs + 1
    /\ pc' = "idle"
    /\ UNCHANGED <<last_scan_data, all_results, si, processed, failed, saved, email,
                   returned, envVars, parserVars, queryVars>>

LoadNext ==
    \/ StartRun
    \/ BuildQuery
    \/ BuildQueryRaises
    \/ RequestFails
    \/ RequestAnswered
    \/ RecordArticles
    \/ RecordFailure
    \/ StampScan
    \/ StampRaises
    \/ SaveCompletes
    \/ NotifySkips
    \/ NotifySends
    \/ ReturnResults

LoadSpec == LoadInit /\ [][LoadNext]_vars

(***************************************************************************)
(* The job while no supplier can be reached: every request of every run    *)
(* fails (a transport error or a status that is not 2xx).                  *)
(***************************************************************************)
\* the steps of run() from the first query to the return
OutageRun ==
    \/ BuildQuery
    \/ RequestFails
    \/ RecordArticles
    \/ StampScan
    \/ SaveCompletes
    \/ SaveOpenFails
    \/ SaveWriteFails
    \/ NotifySkips
    \/ ReturnResults

OutageNext ==
    \/ Tick
    \/ StartRun
    \/ OutageRun

\* run() is straight-line code in one thread: a failing request returns, the
\* sleeps of lines 190 and 334 return, so a step that can be taken is taken
OutageSpec == Init /\ [][OutageNext]_vars /\ WF_vars(OutageRun)

(***************************************************************************)
(* The query builder alone, over a long stretch of time: a monitor that    *)
(* has loaded either no state or the state an earlier run stamped, the     *)
(* clock moving, forwards or back, before the query is built.              *)
(***************************************************************************)
QueryInit ==
    /\ ParserIdle
    /\ \E t \in 0..(TicksPerDay - 1) :
          /\ now = t
          /\ \/ /\ data_file = NoFile
                /\ last_scan_data = EmptyScanData
             \/ /\ last_scan_data = [last_scan |-> <<IsoFormat(t)>>, results |-> EmptyMap]
                /\ data_file = [exists |-> TRUE, text |-> JsonDump(last_scan_data)]
    /\ pc = "build"
    /\ runs = 0
    /\ all_results = EmptyMap
    /\ si \in 1..Len(Suppliers)
    /\ data = EmptyMap
    /\ attempt = 0
    /\ sleeps = <<>>
    /\ outcomes = <<>>
    /\ answer = None
    /\ query_result = [status |-> "none", value |-> <<>>]
    /\ processed = <<>>
    /\ failed = {}
    /\ saved = "none"
    /\ email = None
    /\ returned = None

\* datetime.now() is naive local time: the host can set it back
ClockBack ==
    /\ pc \in ClockPoints
    /\ now > 0
    /\ now' = now - 1
    /\ UNCHANGED <<data_file, parserVars, queryVars, pc, runVars>>

LongTick ==
    /\ pc \in ClockPoints
    /\ now < MaxQueryNow
    /\ now' = now + 1
    /\ UNCHANGED <<data_file, parserVars, queryVars, pc, runVars>>

QueryNext ==
    \/ LongTick
    \/ ClockBack
    \/ BuildQuery

QuerySpec == QueryInit /\ [][QueryNext]_vars

(***************************************************************************)
(* Properties of the parser, checked under ParseSpec                       *)
(***************************************************************************)
\* the non-blank lines of a text, stripped
TextLines(content) ==
    LET stripped == [i \in 1..Len(Split(content)) |-> Strip(Split(content)[i])]
    IN  SelectSeq(stripped, LAMBDA l : l # <<>>)

IsPlainLine(l) == l # <<>> /\ ~HasUrl(l) /\ ~HasBullet(l)

IsBareUrl(l) == MatchAt(l, Http, 0) /\ HasUrl(l) /\ ~Contains(l, <<" ">>)

IsTitleSummaryUrl(content) ==
    LET ls == TextLines(content)
    IN  /\ Len(ls) = 3
        /\ IsPlainLine(ls[1])
        /\ IsPlainLine(ls[2])
        /\ IsBareUrl(ls[3])

\* some phrase of absence occurs in content, letters compared without case
HasPhraseAnyCase(content) ==
    \E ph \in {PhraseNoNewContent, PhraseNoRecent, PhraseCouldntFind} :
        \E i0 \in 0..(Len(content) - Len(ph)) :
            \A k \in 1..Len(ph) : LowerChar(content[i0 + k]) = ph[k]

\* what lines 205-260 would make of a text
GeneralParse(content) ==
    FilterArticles(AddLast(RunLines([current_article |-> None, articles |-> <<>>],
                                    Split(content), 1)))

\* C1: a text of three non-blank lines, a plain line T, a plain line S and a
\* bare URL U (and none of the phrases of absence), parses to exactly one
\* article with title T, summary S and link U.
C1_TitleSummaryUrlIsOneArticle ==
    (/\ p_pc = "returned"
     /\ response.kind = "content"
     /\ ~HasPhraseAnyCase(response.content)
     /\ IsTitleSummaryUrl(response.content))
    => LET ls == TextLines(response.content)
       IN  parsed = <<[title |-> ls[1], summary |-> ls[2], link |-> ls[3]]>>

\* C2: every article the parser returns has a non-empty title and a
\* non-empty summary or a non-empty link.
C2_ReturnedArticlesAreProper ==
    p_pc = "returned" =>
        \A i \in 1..Len(parsed) :
            /\ parsed[i]["title"] # <<>>
            /\ (parsed[i]["summary"] # <<>> \/ parsed[i]["link"] # <<>>)

\* the filter let one article through and held another back
C2_Witness ==
    /\ p_pc = "returned"
    /\ Len(parsed) >= 1
    /\ Len(articles) > Len(parsed)

\* C3: a text that contains one of the phrases of absence, in any letter
\* case and at any position, makes the parser return the empty list at
\* once, whatever else the text contains.
C3_AbsencePhraseGivesEmpty ==
    (/\ p_pc # "start"
     /\ response.kind = "content"
     /\ HasPhraseAnyCase(response.content))
    => (p_pc = "returned" /\ parsed = <<>>)

\* the phrase is in capitals, not at the start, in a text that would
\* otherwise give articles
C3_Witness ==
    /\ p_pc = "returned"
    /\ parsed = <<>>
    /\ response.kind = "content"
    /\ HasPhraseAnyCase(response.content)
    /\ ~SaysNoNewContentCaseSensitive(response.content)
    /\ ~HasPhraseAnyCase(Split(response.content)[1])
    /\ GeneralParse(response.content) # <<>>

(***************************************************************************)
(* Properties of the query builder                                         *)
(***************************************************************************)
\* the time-frame phrase inside the query text of line 145
PhraseOf(query) == SubSeq(query, 6, Len(query) - 1)

StoredTick == FromIsoFormat(last_scan_data.last_scan[1])

\* the whole days from the stored timestamp to the clock
ElapsedDays ==
    CHOOSE d \in -(MaxQueryDays + 2)..(MaxQueryDays + 2) :
        /\ d * TicksPerDay <= now - StoredTick
        /\ now - StoredTick < (d + 1) * TicksPerDay

HasDateFilter == "search_after_date_filter" \in DOMAIN data

\* the stored date, written month/day/year
StoredMDY ==
    LET iso == last_scan_data.last_scan[1]
    IN  <<iso[2], iso[3], iso[1]>>

\* C4 as stated: 0 or 1 elapsed days give "in the last day", 2 to 7 give
\* "in the last week", any other number d gives "in the last d days"; with
\* no stored timestamp there is no phrase and no date filter, with one the
\* date filter is present.
C4_TimeFrameAsStated ==
    pc = "request" =>
        IF last_scan_data.last_scan = None
        THEN PhraseOf(data.query) = <<>> /\ ~HasDateFilter
        ELSE /\ HasDateFilter
             /\ PhraseOf(data.query) =
                  (IF ElapsedDays \in {0, 1} THEN <<"in the last day">>
                   ELSE IF ElapsedDays \in 2..7 THEN <<"in the last week">>
                   ELSE <<"in the last ", ToString(ElapsedDays), " days">>)

\* C4 as amended: at most 1 elapsed day (0, 1, or a negative number when
\* the stored timestamp is ahead of the clock) gives "in the last day", 2 to
\* 7 give "in the last week", 8 or more give "in the last d days"; with no
\* stored timestamp there is no phrase and no date filter, with one the date
\* filter is present.
C4_TimeFrame ==
    pc = "request" =>
        IF last_scan_data.last_scan = None
        THEN PhraseOf(data.query) = <<>> /\ ~HasDateFilter
        ELSE /\ HasDateFilter
             /\ PhraseOf(data.query) =
                  (IF ElapsedDays <= 1 THEN <<"in the last day">>
                   ELSE IF ElapsedDays \in 2..7 THEN <<"in the last week">>
                   ELSE <<"in the last ", ToString(ElapsedDays), " days">>)

\* a query built 8 days after the stored timestamp
C4_Witness ==
    /\ pc = "request"
    /\ last_scan_data.last_scan # None
    /\ ElapsedDays = 8
    /\ PhraseOf(data.query) = <<"in the last ", "8", " days">>

\* C5 as stated: in a second run whose stored timestamp is exactly 3 days
\* before the clock, the query says "in the last 3 days" and its date filter
\* is the stored date, month/day/year.
C5_ThreeDaysAsStated ==
    (/\ pc = "request"
     /\ runs >= 1
     /\ last_scan_data.last_scan # None
     /\ now - StoredTick = 3 * TicksPerDay)
    => /\ PhraseOf(data.query) = <<"in the last ", "3", " days">>
       /\ HasDateFilter
       /\ data["search_after_date_filter"] = StoredMDY

\* C5 as amended: in a second run, every query built when the stored
\* timestamp is exactly 3 days before the clock says "in the last week",
\* and its date filter is the stored date, month/day/year.
C5_ThreeDaysIsLastWeek ==
    (/\ pc = "request"
     /\ runs >= 1
     /\ last_scan_data.last_scan # None
     /\ now - StoredTick = 3 * TicksPerDay)
    => /\ PhraseOf(data.query) = <<"in the last week">>
       /\ HasDateFilter
       /\ data["search_after_date_filter"] = StoredMDY

\* the last supplier's query of a second run, 3 days after the first
C5_Witness ==
    /\ pc = "request"
    /\ runs >= 1
    /\ si = Len(Suppliers)
    /\ last_scan_data.last_scan # None
    /\ now - StoredTick = 3 * TicksPerDay
    /\ HasDateFilter

(***************************************************************************)
(* Properties of the retry loop                                            *)
(***************************************************************************)
\* C6: at most 3 attempts; a failed attempt k (from 0) that is not the last
\* is followed by a sleep of 2^k; no sleep follows the last attempt or a
\* success; fail, fail, success returns the successful result after sleeps
\* 1, 2; three failures return the empty list after exactly 3 attempts.
C6_RetryBackoff ==
    pc \in {"request", "store"} =>
        /\ Len(outcomes) <= 3
        /\ Len(sleeps) <= 2
        /\ \A k \in 1..Len(outcomes) :
              (outcomes[k] = "failed" /\ k < 3) =>
                  (Len(sleeps) >= k /\ sleeps[k] = 2 ^ (k - 1))
        /\ pc = "request" => (Len(sleeps) = Len(outcomes) /\ attempt = Len(outcomes))
        /\ pc = "store" => Len(sleeps) = Len(outcomes) - 1
        /\ outcomes = <<"failed", "failed", "answered">> =>
              /\ sleeps = <<1, 2>>
              /\ query_result =
                    [status |-> "returned",
                     value |-> ParsePerplexityResponse(answer[1]).value]
        /\ outcomes = <<"failed", "failed", "failed">> =>
              /\ sleeps = <<1, 2>>
              /\ query_result = [status |-> "returned", value |-> <<>>]

\* two failures, then an answer with an article
C6_Witness ==
    /\ pc = "store"
    /\ outcomes = <<"failed", "failed", "answered">>
    /\ query_result.status = "returned"
    /\ query_result.value # <<>>

\* attempt k met a 2xx response whose content could not be used
Unparsable2xx(k) ==
    \/ outcomes[k] \in {"badjson", "malformed"}
    \/ outcomes[k] = "answered" /\ answer # None /\ answer[1].kind # "content"

\* C7: an attempt that gets a 2xx response with unparsable content is the
\* last attempt for its supplier, and no backoff sleep follows it.
C7_NoRetryOnUnparsable ==
    \A k \in 1..Len(outcomes) :
        Unparsable2xx(k) =>
            /\ k = Len(outcomes)
            /\ pc # "request"
            /\ Len(sleeps) = k - 1

(***************************************************************************)
(* Properties of run() and of the scan-state file                          *)
(***************************************************************************)
\* C8: whatever happens to each supplier, run() handles every configured
\* supplier in configured order and returns one entry per configured name,
\* the empty list for a supplier whose pipeline raised; the state of that
\* run has last_scan set, in memory and, when the save completes, on file.
C8_EverySupplierHasAnEntry ==
    /\ pc \in {"stamp", "save", "notify", "return"} =>
          /\ processed = [i \in 1..Len(Suppliers) |-> i]
          /\ DOMAIN all_results = SupplierNames
          /\ \A i \in failed : all_results[Suppliers[i].name] = <<>>
    /\ (pc = "idle" /\ runs >= 1) =>
          /\ returned # None
          /\ DOMAIN returned[1] = SupplierNames
          /\ processed = [i \in 1..Len(Suppliers) |-> i]
          /\ \A i \in failed : returned[1][Suppliers[i].name] = <<>>
          /\ last_scan_data.last_scan # None
          /\ saved = "written" =>
                /\ LoadLastScanData(data_file).last_scan # None
                /\ LoadLastScanData(data_file).results = returned[1]

\* the first supplier raised, a later one gave an article, the run returned
C8_Witness ==
    /\ pc = "idle"
    /\ runs >= 1
    /\ 1 \in failed
    /\ returned # None
    /\ HasContent(returned[1])
    /\ saved = "written"

\* C9: whatever way a save ends, a load after it gives the previous
\* snapshot or the new one, whole: never the empty first-run state in
\* place of a previous snapshot.
C9_SaveIsAtomic ==
    [][pc = "save" =>
          LoadLastScanData(data_file') \in
              {LoadLastScanData(data_file), last_scan_data}]_vars

\* C10: under a clock that never goes back (as in Spec), the persisted
\* last_scan, once set, is never reset to null and never decreases.
C10_LastScanMonotone ==
    [][LoadLastScanData(data_file).last_scan # None
       => /\ LoadLastScanData(data_file').last_scan # None
          /\ FromIsoFormat(LoadLastScanData(data_file').last_scan[1])
                >= FromIsoFormat(LoadLastScanData(data_file).last_scan[1])]_vars

(***************************************************************************)
(* C11                                                                     *)
(***************************************************************************)
\* the file holds a well-formed state record
HoldsStateRecord(file) ==
    /\ file.exists
    /\ Len(file.text) = 3
    /\ file.text[1][1] = "{last_scan:"
    /\ file.text[3] = "}"

\* C11: when the file is absent or its content is not a well-formed state
\* record, the monitor starts from the empty state (no last scan, no
\* results), the queries of the run are built as on a first run, and the run
\* ends by returning its results, no error having stopped it.
C11_LoadFailsSoft ==
    /\ (pc = "build" /\ si = 1 /\ ~HoldsStateRecord(data_file))
          => last_scan_data = EmptyScanData
    /\ (pc = "request" /\ saved = "none" /\ ~HoldsStateRecord(data_file))
          => "search_after_date_filter" \notin DOMAIN data
    /\ (pc = "idle" /\ runs >= 1) => returned # None

(***************************************************************************)
(* C12                                                                     *)
(***************************************************************************)
SaveFailed == saved \in {"open failed", "write failed"}

\* C12: when the save at the end of a run fails, the run goes on to the
\* notifier and to its end: the state in memory keeps the stamp and the
\* results of the run (nothing is rolled back), the notifier is given the
\* results gathered (a message with their sections is attempted exactly when
\* some supplier has an article), and run() returns the mapping gathered
\* before the save.
C12_SaveFailureDoesNotStopRun ==
    SaveFailed =>
        /\ pc \in {"notify", "return", "idle"}
        /\ last_scan_data.last_scan # None
        /\ last_scan_data.results = all_results
        /\ pc \in {"return", "idle"} =>
              /\ email # None <=> \E n \in SupplierNames : all_results[n] # <<>>
              /\ email # None => email[1].sections = Sections(all_results, 1)
        /\ pc = "idle" => returned = <<last_scan_data.results>>

C12_Witness ==
    /\ pc = "idle"
    /\ saved = "write failed"
    /\ email # None
    /\ returned = <<all_results>>
    /\ LoadLastScanData(data_file) # last_scan_data

(***************************************************************************)
(* C13                                                                     *)
(***************************************************************************)
\* the sections of the message that name supplier n
SectionsOf(message, n) ==
    {k \in DOMAIN message.sections : message.sections[k].supplier = n}

\* C13: once the notifier has been called, a message was handed to SMTP if
\* and only if some supplier of the result mapping has a non-empty article
\* list, and that message has exactly one section for each supplier with a
\* non-empty list and none for a supplier with an empty list.
C13_NotifyIffContent ==
    (pc = "return" \/ (pc = "idle" /\ returned # None)) =>
        /\ email # None <=> \E n \in SupplierNames : all_results[n] # <<>>
        /\ email # None =>
              \A n \in SupplierNames :
                  Cardinality(SectionsOf(email[1], n))
                      = IF all_results[n] # <<>> THEN 1 ELSE 0

C13_Witness ==
    /\ pc = "return"
    /\ email # None
    /\ \E n \in SupplierNames : all_results[n] = <<>>
    /\ \E n \in SupplierNames : all_results[n] # <<>>

(***************************************************************************)
(* C14                                                                     *)
(***************************************************************************)
AllEmpty(results) ==
    /\ DOMAIN results = SupplierNames
    /\ \A n \in SupplierNames : results[n] = <<>>

RunOver == pc = "idle" /\ runs >= 1

\* what holds at every moment of a run whose requests all fail
OutageSafe ==
    /\ Len(outcomes) <= 3
    /\ Len(sleeps) <= 2
    /\ email = None
    /\ (pc \in {"stamp", "save", "notify", "return"} \/ RunOver) => AllEmpty(all_results)
    /\ pc \in {"save", "notify", "return"} => AllEmpty(last_scan_data.results)
    /\ saved = "written" => AllEmpty(LoadLastScanData(data_file).results)
    /\ RunOver => returned = <<all_results>>

\* C14: a run in which every request fails comes to the end of run(): no
\* supplier is asked more than 3 times, the state handed to the save (and on
\* file once the save completes) maps every supplier to the empty list, no
\* message is sent, and run() returns instead of raising.
C14_OutageRunCompletes ==
    /\ []OutageSafe
    /\ (pc = "build") ~> RunOver

C14_Witness ==
    /\ RunOver
    /\ saved = "written"
    /\ AllEmpty(LoadLastScanData(data_file).results)
    /\ email = None
    /\ returned = <<all_results>>

(***************************************************************************)
(* C15                                                                     *)
(***************************************************************************)
\* run() is inside its loop over the suppliers
Processing == pc \in {"build", "request", "store"}

\* the state the monitor loaded before the run
Loaded == LoadLastScanData(data_file)

\* C15: in every step of a run: while suppliers are processed the state in
\* memory is the state loaded from the file and neither it nor the file
\* changes; each query carries the date filter of that loaded last scan (or
\* none when there is none); the last scan is written only in the step
\* after the last supplier, which leads to the save, and is not written
\* again in that run; the file is written only by the save, before any
\* message is handed to the notifier.
C15_StampOnceAfterSuppliers ==
    [][ /\ Processing =>
              /\ last_scan_data = Loaded
              /\ last_scan_data' = last_scan_data
              /\ data_file' = data_file
        /\ (pc = "build" /\ pc' = "request") =>
              /\ "search_after_date_filter" \in DOMAIN data' <=> Loaded.last_scan # None
              /\ Loaded.last_scan # None =>
                    data'["search_after_date_filter"]
                        = FormatMDY(FromIsoFormat(Loaded.last_scan[1]))
        /\ (pc # "idle" /\ last_scan_data' # last_scan_data) =>
              /\ pc = "stamp" /\ pc' = "save"
              /\ Len(processed) = Len(Suppliers)
              /\ last_scan_data'.last_scan = <<IsoFormat(now)>>
        /\ pc = "stamp" => (pc' = "stamp" \/ last_scan_data'.last_scan = <<IsoFormat(now)>>)
        /\ pc \in {"save", "notify", "return"} => last_scan_data' = last_scan_data
        /\ data_file' # data_file => (pc = "save" /\ pc' = "notify" /\ email = None)
        /\ email' # email => (pc \in {"idle", "notify"} /\ data_file' = data_file)
      ]_vars

C15_Witness ==
    /\ pc = "save"
    /\ runs >= 1
    /\ Loaded.last_scan # None
    /\ last_scan_data.last_scan # Loaded.last_scan
    /\ \E n \in SupplierNames : all_results[n] # <<>>

(***************************************************************************)
(* C16 and C17                                                             *)
(***************************************************************************)
\* the loop of the parser reads line lines[li] in this step
ReadsLine == p_pc = "loop" /\ li <= Len(lines) /\ li' = li + 1

ThisLine == Strip(lines[li])

\* the line after its one-character bullet marker
Unmarked(l) == Strip(Slice(l, 1, Len(l)))

\* the URL of a line: from "http" to the next space or the end of the line
UrlOf(l) ==
    LET from == Find(l, Http, 0)
    IN  IF \E j \in (from + 1)..Len(l) : l[j] = " "
        THEN Slice(l, from, (CHOOSE j \in (from + 1)..Len(l) :
                                /\ l[j] = " "
                                /\ \A i \in (from + 1)..(j - 1) : l[i] # " ") - 1)
        ELSE Slice(l, from, Len(l))

\* C16: a line with a URL pattern and no bullet marker, read while an
\* article is open whose link is still empty, sets that article's link to
\* the URL of the line, appends the article to the output and leaves no
\* article open; read while no article is open, it changes nothing.
C16_BareUrlAttachesAndCloses ==
    [][ (ReadsLine /\ HasUrl(ThisLine) /\ ~HasBullet(ThisLine)) =>
            /\ (current_article # None /\ Get(current_article[1], "link") = <<>>) =>
                  /\ current_article' = None
                  /\ articles' = Append(articles,
                                        SetKey(current_article[1], "link", UrlOf(ThisLine)))
            /\ current_article = None =>
                  /\ current_article' = None
                  /\ articles' = articles
      ]_vars

\* C17: a line with a bullet marker whose rest has a URL pattern, read while
\* an article is open, sets that article's link to the URL and leaves the
\* article open: nothing is appended to the output.
C17_BulletUrlAttachesAndStaysOpen ==
    [][ (ReadsLine /\ HasBullet(ThisLine) /\ HasUrl(Unmarked(ThisLine))
            /\ current_article # None) =>
            /\ articles' = articles
            /\ current_article' # None
            /\ Get(current_article'[1], "link")
                  = Slice(Unmarked(ThisLine), Find(Unmarked(ThisLine), Http, 0),
                          Len(Unmarked(ThisLine)))
            /\ Get(current_article'[1], "title") = Get(current_article[1], "title")
            /\ Get(current_article'[1], "summary") = Get(current_article[1], "summary")
      ]_vars

(***************************************************************************)
(* C18                                                                     *)
(***************************************************************************)
\* the articles closed so far, then the open one
Emitted == articles \o current_article

TitlesOf(as) == [k \in DOMAIN as |-> Get(as[k], "title")]

\* the title lines among the first n lines, in their order
TitleLinesUpTo(n) ==
    SelectSeq([i \in 1..n |-> Strip(lines[i])], IsPlainLine)

\* C18: a non-blank line with no URL pattern and no bullet marker opens an
\* article whose title is the trimmed line (summary and link empty), the
\* article open before it, if any, being appended to the output as it is;
\* at the end of the lines the open article is appended; the articles
\* appended are, in order, those of the title lines of the text, and the
\* list returned keeps their order.
C18_TitleLineOpensArticle ==
    [][ /\ (ReadsLine /\ IsPlainLine(ThisLine)) =>
              /\ current_article'
                    = <<[title |-> ThisLine, summary |-> <<>>, link |-> <<>>]>>
              /\ articles' = articles \o current_article
        /\ ReadsLine => TitlesOf(Emitted') = TitleLinesUpTo(li)
        /\ (p_pc = "loop" /\ p_pc' = "returned") =>
              /\ articles' = articles \o current_article
              /\ TitlesOf(articles') = TitleLinesUpTo(Len(lines))
              /\ parsed' = SelectSeq(articles',
                                     LAMBDA a : Get(a, "summary") # <<>>
                                                  \/ Get(a, "link") # <<>>)
      ]_vars

C18_Witness ==
    /\ p_pc = "returned"
    /\ Len(articles) >= 2
    /\ Get(articles[1], "summary") = <<>>
    /\ Get(articles[1], "link") = <<>>
    /\ Len(parsed) = 1
    /\ TitlesOf(articles) = TitleLinesUpTo(Len(lines))

(***************************************************************************)
(* C19                                                                     *)
(***************************************************************************)
\* C19: a bullet line whose rest has no URL pattern, read while an article
\* is open, becomes the title if the title is empty, else the summary if the
\* summary is empty, else is dropped; the output is untouched; read while no
\* article is open it creates none.  In no step that keeps an article open
\* does a non-empty title or summary of that article change.
C19_BulletFillsOnce ==
    [][ /\ (ReadsLine /\ HasBullet(ThisLine) /\ ~HasUrl(Unmarked(ThisLine))) =>
              /\ articles' = articles
              /\ current_article = None => current_article' = None
              /\ current_article # None =>
                    LET old == current_article[1]
                        rest == Unmarked(ThisLine)
                    IN  /\ current_article' # None
                        /\ Get(current_article'[1], "title")
                              = IF Get(old, "title") = <<>> THEN rest
                                ELSE Get(old, "title")
                        /\ Get(current_article'[1], "summary")
                              = IF Get(old, "title") # <<>> /\ Get(old, "summary") = <<>>
                                THEN rest
                                ELSE Get(old, "summary")
                        /\ Get(current_article'[1], "link") = Get(old, "link")
        /\ (ReadsLine /\ current_article # None /\ current_article' # None
                /\ articles' = articles) =>
              /\ Get(current_article[1], "title") # <<>> =>
                    Get(current_article'[1], "title") = Get(current_article[1], "title")
              /\ Get(current_article[1], "summary") # <<>> =>
                    Get(current_article'[1], "summary") = Get(current_article[1], "summary")
      ]_vars

\* a second bullet line has just been read and dropped
C19_Witness ==
    /\ p_pc = "loop"
    /\ li > 2
    /\ HasBullet(Strip(lines[li - 1]))
    /\ ~HasUrl(Strip(lines[li - 1]))
    /\ current_article # None
    /\ Get(current_article[1], "summary") # <<>>
    /\ Get(current_article[1], "summary") # Unmarked(Strip(lines[li - 1]))
    /\ Unmarked(Strip(lines[li - 1])) # <<>>

(***************************************************************************)
(* C20                                                                     *)
(***************************************************************************)
\* the rests of the bullet lines of the text
BulletRests ==
    {Unmarked(Strip(lines[i])) : i \in {j \in DOMAIN lines : HasBullet(Strip(lines[j]))}}

\* C20: at every point of the parse the link of every article, open, closed
\* or returned, is the empty string; an article returned has a non-empty
\* summary, which is the rest of a bullet line of the text.
C20_LinkAlwaysEmpty ==
    /\ \A k \in DOMAIN articles : Get(articles[k], "link") = <<>>
    /\ current_article # None => Get(current_article[1], "link") = <<>>
    /\ \A k \in DOMAIN parsed :
          /\ Get(parsed[k], "link") = <<>>
          /\ Get(parsed[k], "summary") # <<>>
          /\ Get(parsed[k], "summary") \in BulletRests

\* an article is returned from a text with a URL line after its first line
C20_Witness ==
    /\ p_pc = "returned"
    /\ parsed # <<>>
    /\ IsPlainLine(Strip(lines[1]))
    /\ \E i \in 2..Len(lines) : HasUrl(Strip(lines[i]))

====
